---- MODULE Spec2Model ----
(***************************************************************************)
(* Transactional sale / purchase commit engine of the Mobile Accessory Hub *)
(* (frontend/db.py, frontend/repositories, frontend/views).                *)
(*                                                                         *)
(* The shared store is one value `store` (the INVENTORY, SALE, SALE_DETAIL,*)
(* PURCHASE and PURCHASE_DETAIL tables).  One database call of the Python  *)
(* code is one atomic step; a handler that makes several database calls on *)
(* separate connections is several steps, so that other operator sessions  *)
(* interleave exactly where the code lets them.                            *)
(*                                                                         *)
(* Money: amounts stored in the database are integers in the currency's    *)
(* minor unit (DECIMAL with 2 places).  Python floats of the POS view are  *)
(* integers in 1/100 of a minor unit, so that `subtotal * pct / 100` is    *)
(* exact.                                                                  *)
(***************************************************************************)
EXTENDS Integers, Sequences, FiniteSets, TLC

\* ------------------------------------------------------------------ bounds
MaxStock == 2       \* largest initial on-hand quantity of a product
MaxOrders == 1      \* largest numeric suffix of an order key that is used
MaxQty == 2         \* largest quantity on a line passed to the repositories
MaxLines == 2       \* longest line list passed to the repositories
StockCap == 3       \* operations that would raise a stock above it are not run
MaxCustomers == 2   \* customers created at the point of sale
MaxSuffix == 999    \* largest numeric suffix of an existing key of the sequencer

\* ------------------------------------------------------------ the universe
Products == {"PRD001", "PRD004"}
Sessions == {"EMP001", "EMP002"}
OrderNos == 1..MaxOrders
NoKey == 0

\* Retail price of a product in minor units (the docstring's example sale).
Retail_Price(p) == IF p = "PRD001" THEN 4999 ELSE 2999

\* Supplier cost of a product in minor units (the docstring's example purchase).
Cost_Price(p) == IF p = "PRD001" THEN 2500 ELSE 1200

VARIABLES
    store,                 \* the database: committed contents of the tables
    inventory_map,         \* SalePOSView.inventory_map: stock as last loaded
    cart_items,            \* SalePOSView.cart_items
    current_discount,      \* SalePOSView.current_discount (1/100 minor unit)
    current_tax_rate,      \* SalePOSView.current_tax_rate (percent)
    allday_discount_pct,   \* SalePOSView.allday_discount_pct (0 = None)
    pc,                    \* where each session's running handler stands
    local,                 \* the running handler's local variables
    last,                  \* the call that finished last, and what it returned
    receipts               \* per purchase key: committed receipts into stock

vars == <<store, inventory_map, cart_items, current_discount, current_tax_rate,
          allday_discount_pct, pc, local, last, receipts>>

pos == <<inventory_map, cart_items, current_discount, current_tax_rate,
         allday_discount_pct>>

\* ----------------------------------------------------------------- helpers
RECURSIVE SumSeq(_, _)
SumSeq(f(_), seq) ==
    IF seq = <<>> THEN 0 ELSE f(Head(seq)) + SumSeq(f, Tail(seq))

RECURSIVE SumSet(_, _)
SumSet(f(_), S) ==
    IF S = {} THEN 0
    ELSE LET x == CHOOSE y \in S : TRUE IN f(x) + SumSet(f, S \ {x})

MaxOf(S) == IF S = {} THEN 0 ELSE CHOOSE x \in S : \A y \in S : y <= x

\* Quantity requested for product p, summed over all lines that name it.
Requested(details, p) ==
    LET q(d) == IF d.Product_Code = p THEN d.Quantity ELSE 0
    IN SumSeq(q, details)

\* DECIMAL(.., 2) value of a Python float: round half up to the minor unit.
ToDecimal2(x) == (x + 50) \div 100

\* ------------------------------------------------------------ result values
ProcedureResult(success, created_key, error_message) ==
    [success |-> success, created_key |-> created_key,
     error_message |-> error_message]

NoCall == [op |-> "none", success |-> FALSE, created_key |-> NoKey,
           error_message |-> "", key |-> NoKey, note |-> ""]

NoLocal == [key |-> NoKey, product |-> "", qty |-> 0, current |-> 0,
            subtotal |-> 0, discount |-> 0, tax_rate |-> 0,
            op |-> "", details |-> <<>>, rows |-> 0, conn |-> "none",
            txn |-> "none", exception |-> "",
            result |-> ProcedureResult(FALSE, NoKey, ""), before |-> <<>>]

\* ------------------------------------------------------- the store's tables
EmptyStore(stock0) ==
    [stock |-> stock0, sale |-> {}, sale_detail |-> {},
     purchase |-> {}, purchase_detail |-> {}, customer |-> {}]

\* StockLedger.get: the on-hand quantity of a product.
StockOf(db, p) == db.stock[p]

SaleKeys(db) == {h.Invoice_No : h \in db.sale}
PurchaseKeys(db) == {h.Purchase_No : h \in db.purchase}

LineTotal(d) == d.Quantity * d.Unit_Price

\* usp_GetNextInvoiceNo / usp_GetNextPurchaseNo: maximum existing suffix + 1.
NextInvoiceNo(db) == MaxOf(SaleKeys(db)) + 1
NextPurchaseNo(db) == MaxOf(PurchaseKeys(db)) + 1

\* ------------------------------------------------- utils: ID generation helpers
\* A key is its prefix and the decimal digits that follow it.
RECURSIVE Digits(_)
Digits(n) == IF n < 10 THEN <<n>> ELSE Append(Digits(n \div 10), n % 10)

RECURSIVE DigitsValue(_)
DigitsValue(ds) ==
    IF ds = <<>> THEN 0
    ELSE 10 * DigitsValue(SubSeq(ds, 1, Len(ds) - 1)) + ds[Len(ds)]

\* The format spec 0{width}d: zeros on the left up to a minimum width.
RECURSIVE ZeroPad(_, _)
ZeroPad(ds, width) == IF Len(ds) >= width THEN ds ELSE ZeroPad(<<0>> \o ds, width)

\* width: int = 3
KeyWidth == 3

\* generate_id(prefix, number, width) = f"{prefix}{number:0{width}d}"
generate_idUnpadded(prefix, number, width) ==
    [prefix |-> prefix, digits |-> Digits(number)]
generate_id(prefix, number, width) ==
    [prefix |-> prefix, digits |-> ZeroPad(Digits(number), width)]

\* parse_id_number's None.
NoNumber == 0 - 1

\* parse_id_number(id_string, prefix)
parse_id_number(id_string, prefix) ==
    IF id_string.prefix # prefix \/ id_string.digits = <<>> THEN NoNumber
    ELSE DigitsValue(id_string.digits)

\* usp_GetNextInvoiceNo / usp_GetNextPurchaseNo: the next key, formatted.
usp_GetNextInvoiceNo(db) == generate_id("INV", NextInvoiceNo(db), KeyWidth)
usp_GetNextPurchaseNo(db) == generate_id("PUR", NextPurchaseNo(db), KeyWidth)

\* ------------------------------------------- usp_CreateSale (stored procedure)
\* Step 1 of commit_sale: the line list is not empty and every quantity is > 0.
SaleLinesValid(details) ==
    /\ Len(details) > 0
    /\ \A i \in 1..Len(details) : details[i].Quantity > 0

\* Each line taken on its own is on hand.
HasSufficientPerLine(db, details) ==
    \A i \in 1..Len(details) :
        details[i].Quantity <= StockOf(db, details[i].Product_Code)

\* Step 2: for each distinct product the aggregated quantity is on hand.
HasSufficient(db, details) ==
    \A p \in Products : Requested(details, p) <= StockOf(db, p)

\* The products whose aggregated requested quantity is not on hand.
ShortProducts(db, details) ==
    {p \in Products : Requested(details, p) > StockOf(db, p)}

NoDetail == [product_code |-> "", available |-> 0, requested |-> 0]

\* InsufficientStock(product_code, available, requested) for a short product.
InsufficientStock(db, details) ==
    IF ShortProducts(db, details) = {} THEN NoDetail
    ELSE LET p == CHOOSE q \in ShortProducts(db, details) : TRUE
         IN [product_code |-> p, available |-> StockOf(db, p),
             requested |-> Requested(details, p)]

SaleHeader(InvoiceNo, EmployeeID, Discount, details) ==
    LET gross == SumSeq(LineTotal, details)
    IN [Invoice_No |-> InvoiceNo, Employee_ID |-> EmployeeID,
        Total_Amount |-> gross, Discount |-> Discount,
        Net_Amount |-> gross - Discount]

SaleDetailRow(InvoiceNo, i, d) ==
    [Invoice_No |-> InvoiceNo, Line |-> i, Product_Code |-> d.Product_Code,
     Quantity |-> d.Quantity, Unit_Price |-> d.Unit_Price,
     Line_Total |-> LineTotal(d)]

\* StockLedger.adjust inside the caller's transaction.
AdjustStock(db, p, delta) ==
    [db EXCEPT !.stock[p] = @ + delta]

\* Step 5 for the lines 1..k: one detail row and one stock decrement per line.
RECURSIVE ApplySaleLines(_, _, _, _)
ApplySaleLines(db, InvoiceNo, details, k) ==
    IF k = 0 THEN db
    ELSE LET before == ApplySaleLines(db, InvoiceNo, details, k - 1)
             d == details[k]
             withRow == [before EXCEPT !.sale_detail =
                             @ \cup {SaleDetailRow(InvoiceNo, k, d)}]
         IN AdjustStock(withRow, d.Product_Code, 0 - d.Quantity)

InsertSaleHeader(db, h) == [db EXCEPT !.sale = @ \cup {h}]

\* The procedure's verdict before it writes (steps 1, 2 and the key constraint).
SaleVerdict(db, InvoiceNo, details) ==
    IF ~SaleLinesValid(details) THEN "ValidationError"
    ELSE IF ~HasSufficient(db, details) THEN "InsufficientStock"
    ELSE IF InvoiceNo \in SaleKeys(db) THEN "DuplicateKey"
    ELSE "ok"

\* The transaction's working copy after the header and the first k lines.
SaleWritten(db, InvoiceNo, EmployeeID, Discount, details, k) ==
    ApplySaleLines(
        InsertSaleHeader(db, SaleHeader(InvoiceNo, EmployeeID, Discount, details)),
        InvoiceNo, details, k)

usp_CreateSale(db, InvoiceNo, EmployeeID, Discount, details) ==
    LET verdict == SaleVerdict(db, InvoiceNo, details)
    IN IF verdict = "ok"
       THEN [db |-> SaleWritten(db, InvoiceNo, EmployeeID, Discount, details,
                                Len(details)),
             Success |-> TRUE, CreatedKey |-> InvoiceNo, ErrorMessage |-> "",
             ErrorDetail |-> NoDetail]
       ELSE [db |-> db, Success |-> FALSE, CreatedKey |-> NoKey,
             ErrorMessage |-> verdict,
             ErrorDetail |-> IF verdict = "InsufficientStock"
                             THEN InsufficientStock(db, details) ELSE NoDetail]

\* ------------------------------------------------------- db.call_create_sale
NoFault == 0 - 1

\* The store failures (pyodbc.Error: timeout, lost connection) that can hit a
\* batch: none, or one raised after the header and k of the lines were written.
Faults(details) == {NoFault} \cup 0..Len(details)

\* The failures that differ in what the transaction had written when they hit.
SaleFaults(db, invoice_no, details) ==
    IF SaleVerdict(db, invoice_no, details) = "ok"
    THEN Faults(details) ELSE {NoFault, 0}

\* conn.commit(): the transaction's working copy becomes the store.
ConnCommitNot(committed, working) == committed
ConnCommit(committed, working) == working

\* conn.rollback(): the store keeps its committed contents.
ConnRollbackNot(committed, working) == working
ConnRollback(committed, working) == committed

\* bool(row.Success) of the row the batch returns.
RowSuccessAlways(row) == TRUE
RowSuccess(row) == row.Success

call_create_sale(db, invoice_no, employee_id, discount, details, fault) ==
    IF fault # NoFault
    THEN LET working ==
                 IF SaleVerdict(db, invoice_no, details) = "ok"
                 THEN SaleWritten(db, invoice_no, employee_id,
                                  ToDecimal2(discount), details, fault)
                 ELSE db
         IN [db |-> ConnRollback(db, working),
             result |-> ProcedureResult(FALSE, NoKey, "StoreFailure")]
    ELSE LET row == usp_CreateSale(db, invoice_no, employee_id,
                                   ToDecimal2(discount), details)
         IN [db |-> ConnCommit(db, row.db),
             result |-> ProcedureResult(RowSuccess(row), row.CreatedKey,
                                        row.ErrorMessage)]

\* SaleRepository.create_sale
create_sale(db, invoice_no, employee_id, discount, details, fault) ==
    call_create_sale(db, invoice_no, employee_id, discount, details, fault)

\* SaleRepository.get_next_id: its own connection, nothing is written or held.
sale_get_next_id(db) == NextInvoiceNo(db)

\* --------------------------------------------------------- db.call_procedure
\* What a stored procedure leaves behind: the transaction's working copy, and
\* whether the batch raised (RAISERROR / THROW / store failure: pyodbc.Error).
Ran(working, message) == [db |-> working, raised |-> FALSE, message |-> message]
Raised(working, message) == [db |-> working, raised |-> TRUE, message |-> message]

\* call_procedure(..., has_output=False): commit and True, or on pyodbc.Error
\* roll back and False.
call_procedureUncommitted(db, out) == [db |-> db, result |-> ~out.raised]
call_procedure(db, out) ==
    IF out.raised
    THEN [db |-> ConnRollback(db, out.db), result |-> FALSE]
    ELSE [db |-> ConnCommit(db, out.db), result |-> TRUE]

\* ---------------------------------------------- purchase stored procedures
PurchaseRow(db, no) == CHOOSE h \in db.purchase : h.Purchase_No = no
PurchaseLines(db, no) == {d \in db.purchase_detail : d.Purchase_No = no}
StatusOf(db, no) ==
    IF no \in PurchaseKeys(db) THEN PurchaseRow(db, no).Payment_Status
    ELSE "Absent"

\* usp_CreatePurchaseOrder: header with status Pending and its one detail row;
\* stock is not touched.
usp_CreatePurchaseOrder(db, Purchase_No, Product_Code, Quantity, Unit_Price) ==
    IF Quantity <= 0 THEN [db |-> db, Success |-> 0, Message |-> "ValidationError"]
    ELSE IF Purchase_No \in PurchaseKeys(db)
    THEN [db |-> db, Success |-> 0, Message |-> "DuplicateKey"]
    ELSE [db |-> [db EXCEPT
                    !.purchase = @ \cup
                        {[Purchase_No |-> Purchase_No,
                          Total_Amount |-> Quantity * Unit_Price,
                          Payment_Status |-> "Pending"]},
                    !.purchase_detail = @ \cup
                        {[Purchase_No |-> Purchase_No, Line |-> 1,
                          Product_Code |-> Product_Code, Quantity |-> Quantity,
                          Unit_Price |-> Unit_Price,
                          Line_Total |-> Quantity * Unit_Price]}],
          Success |-> 1, Message |-> ""]

\* usp_CreatePurchase as PurchaseRepository.create_purchase documents it:
\* creates the PURCHASE header, creates all PURCHASE_DETAIL records and updates
\* INVENTORY (increases stock), all within a transaction.
RECURSIVE ApplyPurchaseLines(_, _, _, _)
ApplyPurchaseLines(db, Purchase_No, details, k) ==
    IF k = 0 THEN db
    ELSE LET before == ApplyPurchaseLines(db, Purchase_No, details, k - 1)
             d == details[k]
             withRow == [before EXCEPT !.purchase_detail = @ \cup
                             {[Purchase_No |-> Purchase_No, Line |-> k,
                               Product_Code |-> d.Product_Code,
                               Quantity |-> d.Quantity,
                               Unit_Price |-> d.Unit_Price,
                               Line_Total |-> LineTotal(d)]}]
         IN AdjustStock(withRow, d.Product_Code, d.Quantity)

usp_CreatePurchase(db, Purchase_No, details) ==
    IF Purchase_No \in PurchaseKeys(db)
    THEN [db |-> db, Success |-> FALSE, CreatedKey |-> NoKey,
          ErrorMessage |-> "DuplicateKey"]
    ELSE [db |-> ApplyPurchaseLines(
                     [db EXCEPT !.purchase = @ \cup
                          {[Purchase_No |-> Purchase_No,
                            Total_Amount |-> SumSeq(LineTotal, details),
                            Payment_Status |-> "Pending"]}],
                     Purchase_No, details, Len(details)),
          Success |-> TRUE, CreatedKey |-> Purchase_No, ErrorMessage |-> ""]

\* The stock increments of the first k detail lines of a purchase.
RECURSIVE ApplyReceiptLines(_, _, _)
ApplyReceiptLines(db, no, k) ==
    IF k = 0 THEN db
    ELSE LET d == CHOOSE r \in PurchaseLines(db, no) : r.Line = k
         IN AdjustStock(ApplyReceiptLines(db, no, k - 1),
                        d.Product_Code, d.Quantity)

SetStatus(db, no, status) ==
    [db EXCEPT !.purchase =
        {IF h.Purchase_No = no THEN [h EXCEPT !.Payment_Status = status] ELSE h
         : h \in @}]

\* usp_MarkPurchaseReceived: the header must be Pending; every detail line is
\* added to stock and the status becomes Received.
usp_MarkPurchaseReceived(db, no, fault) ==
    IF no \notin PurchaseKeys(db) THEN Raised(db, "Purchase not found")
    ELSE IF StatusOf(db, no) # "Pending" THEN Raised(db, "Purchase already received")
    ELSE IF fault # NoFault
    THEN Raised(ApplyReceiptLines(db, no, fault), "StoreFailure")
    ELSE Ran(SetStatus(ApplyReceiptLines(db, no, Cardinality(PurchaseLines(db, no))),
                       no, "Received"), "")

\* usp_CancelPurchase: the header must be Pending; its detail rows and the
\* header are deleted.
usp_CancelPurchase(db, no) ==
    IF no \notin PurchaseKeys(db) THEN Raised(db, "Purchase not found")
    ELSE IF StatusOf(db, no) = "Received"
    THEN Raised(db, "Cannot cancel a received purchase")
    ELSE IF StatusOf(db, no) # "Pending"
    THEN Raised(db, "Only pending purchases can be cancelled")
    ELSE Ran([db EXCEPT
                !.purchase_detail = @ \ PurchaseLines(db, no),
                !.purchase = @ \ {PurchaseRow(db, no)}], "")

\* usp_UpdatePurchaseStatus: the header's Payment_Status becomes the value passed.
usp_UpdatePurchaseStatus(db, no, status) ==
    IF no \in PurchaseKeys(db) THEN Ran(SetStatus(db, no, status), "")
    ELSE Ran(db, "")

usp_AdjustInventoryUnguarded(db, p, adjustment) ==
    Ran(AdjustStock(db, p, adjustment), "")

\* usp_AdjustInventory (StockLedger.adjust): current_quantity += delta, refused
\* when the result would be negative.
usp_AdjustInventory(db, p, adjustment) ==
    IF StockOf(db, p) + adjustment < 0
    THEN Raised(db, "Insufficient stock")
    ELSE Ran(AdjustStock(db, p, adjustment), "")

\* ------------------------------------------------------ PurchaseRepository
purchase_get_next_id(db) == NextPurchaseNo(db)

\* create_with_product after its get_next_id: call_procedure_with_result(...,
\* commit=True) and the test of the returned row.
create_with_product(db, purchase_no, product_code, quantity, unit_price) ==
    LET row == usp_CreatePurchaseOrder(db, purchase_no, product_code, quantity,
                                       unit_price)
    IN [db |-> ConnCommit(db, row.db),
        result |-> ProcedureResult(row.Success = 1,
                                   IF row.Success = 1 THEN purchase_no ELSE NoKey,
                                   row.Message)]

\* db.call_create_purchase: the batch, conn.commit() and the returned row, or on
\* pyodbc.Error conn.rollback() and a failure result.
call_create_purchase(db, purchase_no, details, fault) ==
    IF fault # NoFault
    THEN [db |-> ConnRollback(db, db),
          result |-> ProcedureResult(FALSE, NoKey, "StoreFailure")]
    ELSE LET row == usp_CreatePurchase(db, purchase_no, details)
         IN [db |-> ConnCommit(db, row.db),
             result |-> ProcedureResult(RowSuccess(row), row.CreatedKey,
                                        row.ErrorMessage)]

\* PurchaseRepository.create_purchase
create_purchase(db, purchase_no, details, fault) ==
    call_create_purchase(db, purchase_no, details, fault)

mark_as_received(db, purchase_no, fault) ==
    LET r == call_procedure(db, usp_MarkPurchaseReceived(db, purchase_no, fault))
    IN [db |-> r.db,
        result |-> ProcedureResult(r.result, NoKey,
            IF r.result THEN "Purchase marked as received. Inventory updated."
            ELSE "Purchase not found or already received")]

cancel_purchase(db, purchase_no) ==
    LET r == call_procedure(db, usp_CancelPurchase(db, purchase_no))
    IN [db |-> r.db,
        result |-> ProcedureResult(r.result, NoKey,
            IF r.result THEN "Purchase order cancelled successfully."
            ELSE "Purchase not found or cannot be cancelled")]

update_payment_status(db, purchase_no, status) ==
    LET r == call_procedure(db, usp_UpdatePurchaseStatus(db, purchase_no, status))
    IN [db |-> r.db, result |-> ProcedureResult(r.result, NoKey, "")]

\* The statuses update_payment_status documents.
PaymentStatuses == {"Pending", "Paid"}

\* ----------------------------------------------------- InventoryRepository
get_stock_level(db, product_code) == StockOf(db, product_code)

adjust_stock(db, product_code, adjustment) ==
    LET r == call_procedure(db, usp_AdjustInventory(db, product_code, adjustment))
    IN [db |-> r.db, result |-> ProcedureResult(r.result, NoKey, "")]

\* update_stock after its read of the current level.
update_stock_adjust(db, product_code, new_stock, current) ==
    adjust_stock(db, product_code, new_stock - current)

\* ------------------------------------------------ inputs of direct callers
Line(p, q) == [Product_Code |-> p, Quantity |-> q, Unit_Price |-> Retail_Price(p)]
Lines == {Line(p, q) : p \in Products, q \in 0..MaxQty}
LineLists == UNION {[1..n -> Lines] : n \in 0..MaxLines}

\* Discounts a caller passes (floats, in 1/100 of a minor unit): none, 10.00.
Discounts == {0, 100000}

Called(op, s, r, key, note) ==
    [op |-> op, success |-> r.success, created_key |-> r.created_key,
     error_message |-> r.error_message, key |-> key, note |-> note]

\* What made a create_sale call remarkable: its line list was invalid, the stock
\* shortfall showed only in the sum over several lines or only on the last line,
\* or a store failure hit after some rows were written.
SaleNote(db, invoice_no, details, fault) ==
    IF ~SaleLinesValid(details) THEN "invalid"
    ELSE IF /\ fault = NoFault
       /\ SaleVerdict(db, invoice_no, details) = "InsufficientStock"
       /\ HasSufficientPerLine(db, details)
    THEN "short_in_sum"
    ELSE IF /\ fault = NoFault
       /\ SaleVerdict(db, invoice_no, details) = "InsufficientStock"
       /\ Len(details) > 1
       /\ HasSufficient(db, SubSeq(details, 1, Len(details) - 1))
    THEN "short_on_last"
    ELSE IF fault # NoFault /\ fault > 0
            /\ SaleVerdict(db, invoice_no, details) = "ok"
    THEN "partial"
    ELSE ""

\* ------------------------------------------------------------------- Init
InitWith(stocks) ==
    /\ store \in {EmptyStore(s) : s \in stocks}
    /\ inventory_map = [s \in Sessions |-> store.stock]
    /\ cart_items = [s \in Sessions |-> <<>>]
    /\ current_discount = [s \in Sessions |-> 0]
    /\ current_tax_rate = [s \in Sessions |-> 0]
    /\ allday_discount_pct = [s \in Sessions |-> 0]
    /\ pc = [s \in Sessions |-> "idle"]
    /\ local = [s \in Sessions |-> NoLocal]
    /\ last = NoCall
    /\ receipts = [k \in OrderNos |-> 0]

\* Any on-hand quantities up to MaxStock, no orders yet.
Init == InitWith([Products -> 0..MaxStock])

\* MaxStock of every product on hand, no orders yet.
InitFull == InitWith({[p \in Products |-> MaxStock]})

\* Nothing on hand, no orders yet.
InitNoStock == InitWith({[p \in Products |-> 0]})

\* ------------------------------------------------- repository-level callers
\* A caller of SaleRepository.create_sale with a key and a line list of its own.
CreateSaleWith(s, discounts, lists) ==
    /\ pc[s] = "idle"
    /\ \E invoice_no \in OrderNos, discount \in discounts,
          details \in lists :
         \E fault \in SaleFaults(store, invoice_no, details) :
           LET r == create_sale(store, invoice_no, s, discount, details, fault)
           IN /\ store' = r.db
              /\ last' = Called("create_sale", s, r.result, invoice_no,
                               SaleNote(store, invoice_no, details, fault))
    /\ UNCHANGED <<pos, pc, local, receipts>>

CreateSale(s) == CreateSaleWith(s, Discounts, LineLists)

\* The same caller with one-line orders and no discount.
CreateSimpleSale(s) == CreateSaleWith(s, {0}, [1..1 -> Lines])


WithinCap(db) == \A p \in Products : StockOf(db, p) <= StockCap

\* ------------------------------------------------------- the key sequencer
\* SaleRepository.get_next_id as a call of its own.
SaleNextId(s) ==
    /\ pc[s] = "idle"
    /\ last' = [op |-> "get_next_id", success |-> TRUE,
                created_key |-> usp_GetNextInvoiceNo(store),
                error_message |-> "", key |-> MaxOf(SaleKeys(store)),
                note |-> "INV"]
    /\ UNCHANGED <<store, pos, pc, local, receipts>>

\* PurchaseRepository.get_next_id as a call of its own.
PurchaseNextId(s) ==
    /\ pc[s] = "idle"
    /\ last' = [op |-> "get_next_id", success |-> TRUE,
                created_key |-> usp_GetNextPurchaseNo(store),
                error_message |-> "", key |-> MaxOf(PurchaseKeys(store)),
                note |-> "PUR"]
    /\ UNCHANGED <<store, pos, pc, local, receipts>>

\* A store whose newest sale, or newest purchase, has any suffix up to MaxSuffix.
SequencerStores ==
    LET full == EmptyStore([p \in Products |-> MaxStock])
    IN {full}
       \cup {SaleWritten(full, m, "EMP001", 0, <<Line("PRD001", 1)>>, 1)
              : m \in 1..MaxSuffix}
       \cup {usp_CreatePurchaseOrder(full, m, "PRD001", 1,
                                      Cost_Price("PRD001")).db
              : m \in 1..MaxSuffix}

InitSequencer ==
    /\ store \in SequencerStores
    /\ inventory_map = [s \in Sessions |-> store.stock]
    /\ cart_items = [s \in Sessions |-> <<>>]
    /\ current_discount = [s \in Sessions |-> 0]
    /\ current_tax_rate = [s \in Sessions |-> 0]
    /\ allday_discount_pct = [s \in Sessions |-> 0]
    /\ pc = [s \in Sessions |-> "idle"]
    /\ local = [s \in Sessions |-> NoLocal]
    /\ last = NoCall
    /\ receipts = [k \in OrderNos |-> 0]

\* ------------------------------------------------------ purchase operations
\* PurchaseRepository.create_with_product, first call: get_next_id.
PurchaseGetNextId(s) ==
    /\ pc[s] = "idle"
    /\ purchase_get_next_id(store) <= MaxOrders
    /\ pc' = [pc EXCEPT ![s] = "purchase_keyed"]
    /\ local' = [local EXCEPT ![s] = [NoLocal EXCEPT !.key = purchase_get_next_id(store)]]
    /\ UNCHANGED <<store, pos, last, receipts>>

\* PurchaseRepository.create_with_product, second call: usp_CreatePurchaseOrder.
PurchaseCreate(s) ==
    /\ pc[s] = "purchase_keyed"
    /\ \E product_code \in Products, quantity \in 0..MaxQty :
         LET r == create_with_product(store, local[s].key, product_code, quantity,
                                      Cost_Price(product_code))
         IN /\ store' = r.db
            /\ last' = Called("create_with_product", s, r.result, local[s].key, "")
    /\ pc' = [pc EXCEPT ![s] = "idle"]
    /\ local' = [local EXCEPT ![s] = NoLocal]
    /\ UNCHANGED <<pos, receipts>>

\* Line lists of a purchase: one or two lines at the supplier's cost.
PurchaseLine(p, q) ==
    [Product_Code |-> p, Quantity |-> q, Unit_Price |-> Cost_Price(p)]
PurchaseLineLists ==
    UNION {[1..n -> {PurchaseLine(p, q) : p \in Products, q \in 1..MaxQty}]
           : n \in 1..MaxLines}

\* A caller of PurchaseRepository.create_purchase with a key and lines of its own.
CreatePurchase(s) ==
    /\ pc[s] = "idle"
    /\ \E purchase_no \in OrderNos, details \in PurchaseLineLists,
          fault \in {NoFault, 0} :
         LET r == create_purchase(store, purchase_no, details, fault)
         IN /\ WithinCap(r.db)
            /\ store' = r.db
            /\ last' = Called("create_purchase", s, r.result, purchase_no, "")
    /\ UNCHANGED <<pos, pc, local, receipts>>

\* PurchaseDetailDialog._mark_as_received -> PurchaseRepository.mark_as_received
MarkAsReceived(s) ==
    /\ pc[s] = "idle"
    /\ \E purchase_no \in OrderNos :
         \E fault \in {NoFault} \cup 0..Cardinality(PurchaseLines(store, purchase_no)) :
           LET r == mark_as_received(store, purchase_no, fault)
           IN /\ WithinCap(r.db)
              /\ store' = r.db
              /\ last' = Called("mark_as_received", s, r.result, purchase_no,
                                IF /\ StatusOf(store, purchase_no) = "Pending"
                                   /\ fault # NoFault /\ fault > 0
                                THEN "partial"
                                ELSE StatusOf(store, purchase_no))
              /\ receipts' = [receipts EXCEPT ![purchase_no] =
                                 IF r.result.success THEN @ + 1 ELSE @]
    /\ UNCHANGED <<pos, pc, local>>

\* PurchaseDetailDialog._cancel_order -> PurchaseRepository.cancel_purchase
CancelPurchase(s) ==
    /\ pc[s] = "idle"
    /\ \E purchase_no \in OrderNos :
         LET r == cancel_purchase(store, purchase_no)
         IN /\ store' = r.db
            /\ last' = Called("cancel_purchase", s, r.result, purchase_no,
                              StatusOf(store, purchase_no))
    /\ UNCHANGED <<pos, pc, local, receipts>>

\* PurchaseRepository.update_payment_status
UpdatePaymentStatus(s) ==
    /\ pc[s] = "idle"
    /\ \E purchase_no \in OrderNos, status \in PaymentStatuses :
         LET r == update_payment_status(store, purchase_no, status)
         IN /\ store' = r.db
            /\ last' = Called("update_payment_status", s, r.result, purchase_no,
                              StatusOf(store, purchase_no))
    /\ UNCHANGED <<pos, pc, local, receipts>>

\* ----------------------------------------------------- inventory operations
\* InventoryRepository.adjust_stock
AdjustStockCall(s) ==
    /\ pc[s] = "idle"
    /\ \E product_code \in Products, adjustment \in (0 - MaxQty)..MaxQty :
         LET r == adjust_stock(store, product_code, adjustment)
         IN /\ WithinCap(r.db)
            /\ store' = r.db
            /\ last' = Called("adjust_stock", s, r.result, NoKey, "")
    /\ UNCHANGED <<pos, pc, local, receipts>>

\* InventoryRepository.update_stock up to its read of the current level; a
\* negative new_stock returns False before any store access.
UpdateStockRead(s) ==
    /\ pc[s] = "idle"
    /\ \E product_code \in Products, new_stock \in (0 - 1)..StockCap :
         IF new_stock < 0
         THEN /\ last' = Called("update_stock", s,
                                ProcedureResult(FALSE, NoKey, ""), NoKey, "rejected")
              /\ UNCHANGED <<pc, local>>
         ELSE /\ pc' = [pc EXCEPT ![s] = "update_stock"]
              /\ local' = [local EXCEPT ![s] =
                             [NoLocal EXCEPT !.product = product_code,
                                             !.qty = new_stock,
                                             !.current = get_stock_level(store, product_code)]]
              /\ UNCHANGED last
    /\ UNCHANGED <<store, pos, receipts>>

\* InventoryRepository.update_stock: the usp_AdjustInventory call.
UpdateStockAdjust(s) ==
    /\ pc[s] = "update_stock"
    /\ LET r == update_stock_adjust(store, local[s].product, local[s].qty,
                                    local[s].current)
       IN /\ WithinCap(r.db)
          /\ store' = r.db
          /\ last' = Called("update_stock", s, r.result, NoKey,
                            IF StockOf(store, local[s].product) = local[s].current
                            THEN "fresh" ELSE "stale")
    /\ pc' = [pc EXCEPT ![s] = "idle"]
    /\ local' = [local EXCEPT ![s] = NoLocal]
    /\ UNCHANGED <<pos, receipts>>

\* ------------------------------------------------------------- SalePOSView
\* CartItem.total_price
total_price(item) == item.unit_price * item.quantity

Subtotal(cart) == SumSeq(total_price, cart)

\* SalePOSView._update_totals: an active all-day discount replaces a current
\* discount of 0; returns the new current_discount.
update_totals_discount(cart, discount, allday_pct) ==
    IF allday_pct # 0 /\ discount = 0
    THEN (Subtotal(cart) * allday_pct) \div 100
    ELSE discount

\* The amount after discount that _update_totals and _checkout compute.
AfterDiscount(subtotal, discount) ==
    IF subtotal - discount < 0 THEN 0 ELSE subtotal - discount

\* 100 * total, for total = after_discount + after_discount * tax_rate / 100.
TotalTimes100(subtotal, discount, tax_rate) ==
    AfterDiscount(subtotal, discount) * (100 + tax_rate)

\* The sale_details list _checkout builds from the cart.
RECURSIVE CartDetails(_)
CartDetails(cart) ==
    IF cart = <<>> THEN <<>>
    ELSE <<[Product_Code |-> Head(cart).product_code,
            Quantity |-> Head(cart).quantity,
            Unit_Price |-> Head(cart).unit_price \div 100]>>
         \o CartDetails(Tail(cart))

CartRow(cart, product_code) ==
    {i \in 1..Len(cart) : cart[i].product_code = product_code}

RemoveAt(seq, i) == SubSeq(seq, 1, i - 1) \o SubSeq(seq, i + 1, Len(seq))

\* Every change of the cart ends in _refresh_cart_display -> _update_totals.
SetCart(s, cart) ==
    /\ cart_items' = [cart_items EXCEPT ![s] = cart]
    /\ current_discount' = [current_discount EXCEPT ![s] =
           update_totals_discount(cart, @, allday_discount_pct[s])]

\* SalePOSView.refresh_data
RefreshData(s) ==
    /\ pc[s] = "idle"
    /\ inventory_map[s] # store.stock
    /\ inventory_map' = [inventory_map EXCEPT ![s] = store.stock]
    /\ UNCHANGED <<store, cart_items, current_discount, current_tax_rate,
                   allday_discount_pct, pc, local, last, receipts>>

\* SalePOSView._add_to_cart
AddToCart(s) ==
    /\ pc[s] = "idle"
    /\ \E product_code \in Products :
         LET available_stock == inventory_map[s][product_code]
             rows == CartRow(cart_items[s], product_code)
         IN IF rows # {}
            THEN LET i == CHOOSE r \in rows : \A q \in rows : r <= q
                 IN /\ cart_items[s][i].quantity < available_stock
                    /\ SetCart(s, [cart_items[s] EXCEPT ![i].quantity = @ + 1])
            ELSE /\ available_stock > 0
                 /\ SetCart(s, Append(cart_items[s],
                        [product_code |-> product_code,
                         unit_price |-> Retail_Price(product_code) * 100,
                         quantity |-> 1,
                         available_stock |-> available_stock]))
    /\ UNCHANGED <<store, inventory_map, current_tax_rate, allday_discount_pct,
                   pc, local, last, receipts>>

\* SalePOSView._increase_quantity
IncreaseQuantity(s) ==
    /\ pc[s] = "idle"
    /\ \E row \in 1..Len(cart_items[s]) :
         /\ cart_items[s][row].quantity < cart_items[s][row].available_stock
         /\ SetCart(s, [cart_items[s] EXCEPT ![row].quantity = @ + 1])
    /\ UNCHANGED <<store, inventory_map, current_tax_rate, allday_discount_pct,
                   pc, local, last, receipts>>

\* SalePOSView._decrease_quantity (which removes an item of quantity 1)
DecreaseQuantity(s) ==
    /\ pc[s] = "idle"
    /\ \E row \in 1..Len(cart_items[s]) :
         IF cart_items[s][row].quantity > 1
         THEN SetCart(s, [cart_items[s] EXCEPT ![row].quantity = @ - 1])
         ELSE SetCart(s, RemoveAt(cart_items[s], row))
    /\ UNCHANGED <<store, inventory_map, current_tax_rate, allday_discount_pct,
                   pc, local, last, receipts>>

\* SalePOSView._remove_from_cart
RemoveFromCart(s) ==
    /\ pc[s] = "idle"
    /\ \E row \in 1..Len(cart_items[s]) :
         SetCart(s, RemoveAt(cart_items[s], row))
    /\ UNCHANGED <<store, inventory_map, current_tax_rate, allday_discount_pct,
                   pc, local, last, receipts>>

\* SalePOSView._clear_cart, confirmed
ClearCart(s) ==
    /\ pc[s] = "idle"
    /\ cart_items[s] # <<>>
    /\ SetCart(s, <<>>)
    /\ UNCHANGED <<store, inventory_map, current_tax_rate, allday_discount_pct,
                   pc, local, last, receipts>>

\* The smallest and largest percentage preset and all-day preset of the discount
\* dialog, and the no-tax and GST presets of the tax dialog.
pct_rates == {5, 30}
allday_rates == {10, 25}
preset_rates == {0, 16}

\* Amounts typed into the fixed-amount box (1/100 of a minor unit): 10.00, 100.00.
FixedAmounts == {100000, 1000000}

\* SalePOSView._open_discount_dialog, accepted through one of the dialog's buttons.
OpenDiscountDialog(s) ==
    /\ pc[s] = "idle"
    /\ LET subtotal == Subtotal(cart_items[s])
           Choose(discount, allday) ==
               /\ allday_discount_pct' = [allday_discount_pct EXCEPT ![s] = allday]
               /\ current_discount' = [current_discount EXCEPT ![s] =
                      update_totals_discount(cart_items[s], discount, allday)]
       IN \/ Choose(0, 0)                                 \* remove all discounts
          \/ \E pct \in pct_rates :                       \* percentage preset
               Choose((subtotal * pct) \div 100, allday_discount_pct[s])
          \/ \E amount \in FixedAmounts :                 \* fixed amount
               Choose(amount, allday_discount_pct[s])
          \/ \E pct \in allday_rates :                    \* all-day discount
               Choose((subtotal * pct) \div 100, pct)
    /\ UNCHANGED <<store, inventory_map, cart_items, current_tax_rate, pc, local,
                   last, receipts>>

\* SalePOSView._open_tax_dialog, accepted with a preset rate.
OpenTaxDialog(s) ==
    /\ pc[s] = "idle"
    /\ \E rate \in preset_rates :
         current_tax_rate' = [current_tax_rate EXCEPT ![s] = rate]
    /\ UNCHANGED <<store, inventory_map, cart_items, current_discount,
                   allday_discount_pct, pc, local, last, receipts>>

\* SalePOSView._checkout up to SaleRepository.get_next_id: the cart is not empty,
\* both dialogs are accepted, the totals are computed and the key is read.
CheckoutGetNextId(s) ==
    /\ pc[s] = "idle"
    /\ cart_items[s] # <<>>
    /\ sale_get_next_id(store) <= MaxOrders
    /\ pc' = [pc EXCEPT ![s] = "checkout_keyed"]
    /\ local' = [local EXCEPT ![s] =
           [NoLocal EXCEPT !.key = sale_get_next_id(store),
                           !.subtotal = Subtotal(cart_items[s]),
                           !.discount = current_discount[s],
                           !.tax_rate = current_tax_rate[s]]]
    /\ UNCHANGED <<store, pos, last, receipts>>

\* `if result.success:` of SalePOSView._checkout.
CheckoutSucceededAlways(result) == TRUE
CheckoutSucceeded(result) == result.success

\* SalePOSView._checkout from SaleRepository.create_sale on.
CheckoutCreateSale(s) ==
    /\ pc[s] = "checkout_keyed"
    /\ LET details == CartDetails(cart_items[s])
       IN \E fault \in SaleFaults(store, local[s].key, details) :
            LET r == create_sale(store, local[s].key, s, local[s].discount,
                                 details, fault)
            IN /\ store' = r.db
               /\ last' = Called("create_sale", s, r.result, local[s].key,
                                 SaleNote(store, local[s].key, details, fault))
               /\ IF CheckoutSucceeded(r.result)
                  THEN /\ cart_items' = [cart_items EXCEPT ![s] = <<>>]
                       /\ current_discount' = [current_discount EXCEPT ![s] =
                              update_totals_discount(<<>>, 0, allday_discount_pct[s])]
                       /\ inventory_map' = [inventory_map EXCEPT ![s] = r.db.stock]
                  ELSE UNCHANGED <<cart_items, current_discount, inventory_map>>
    /\ pc' = [pc EXCEPT ![s] = "idle"]
    /\ local' = [local EXCEPT ![s] = NoLocal]
    /\ UNCHANGED <<current_tax_rate, allday_discount_pct, receipts>>

\* ------------------------------------------------------------ specifications
\* Order commits through the repositories: one caller commits sales with keys
\* and line lists of its own, another creates and cancels purchases.
NextOrders ==
    \/ CreateSale("EMP001")
    \/ PurchaseGetNextId("EMP002")
    \/ PurchaseCreate("EMP002")
    \/ CancelPurchase("EMP002")

SpecOrders == Init /\ [][NextOrders]_vars

\* The purchase lifecycle driven by two sessions.
NextPurchase ==
    \E s \in Sessions :
        \/ PurchaseGetNextId(s)
        \/ PurchaseCreate(s)
        \/ MarkAsReceived(s)
        \/ CancelPurchase(s)
        \/ UpdatePaymentStatus(s)

SpecPurchase == InitNoStock /\ [][NextPurchase]_vars

\* Purchase commits through both repository entry points.
NextCommitPurchase ==
    \/ CreatePurchase("EMP001")
    \/ CancelPurchase("EMP001")
    \/ PurchaseGetNextId("EMP002")
    \/ PurchaseCreate("EMP002")

SpecCommitPurchase == InitNoStock /\ [][NextCommitPurchase]_vars

\* Receipt and cancellation of purchases of one or several lines.
NextReceive ==
    \/ CreatePurchase("EMP001")
    \/ AdjustStockCall("EMP001")
    \/ PurchaseGetNextId("EMP002")
    \/ PurchaseCreate("EMP002")
    \/ MarkAsReceived("EMP002")
    \/ CancelPurchase("EMP002")

SpecReceive == InitNoStock /\ [][NextReceive]_vars

\* The key sequencer on stores with any existing maximum key.
NextSequencer ==
    \/ SaleNextId("EMP001")
    \/ PurchaseNextId("EMP002")

SpecSequencer == InitSequencer /\ [][NextSequencer]_vars

\* Everything that moves stock: one session sells and sets stock levels, the
\* other buys, receives, cancels and adjusts.
NextStock ==
    \/ CreateSimpleSale("EMP001")
    \/ UpdateStockRead("EMP001")
    \/ UpdateStockAdjust("EMP001")
    \/ PurchaseGetNextId("EMP002")
    \/ PurchaseCreate("EMP002")
    \/ MarkAsReceived("EMP002")
    \/ CancelPurchase("EMP002")
    \/ AdjustStockCall("EMP002")

SpecStock == InitFull /\ [][NextStock]_vars

\* Two operator sessions at the point of sale.
NextPOS ==
    \E s \in Sessions :
        \/ RefreshData(s)
        \/ AddToCart(s)
        \/ IncreaseQuantity(s)
        \/ DecreaseQuantity(s)
        \/ RemoveFromCart(s)
        \/ CheckoutGetNextId(s)
        \/ CheckoutCreateSale(s)

SpecPOS == Init /\ [][NextPOS]_vars

\* One operator session with discounts and tax.
NextPricing ==
    \/ AddToCart("EMP001")
    \/ IncreaseQuantity("EMP001")
    \/ DecreaseQuantity("EMP001")
    \/ RemoveFromCart("EMP001")
    \/ ClearCart("EMP001")
    \/ OpenDiscountDialog("EMP001")
    \/ OpenTaxDialog("EMP001")
    \/ CheckoutGetNextId("EMP001")
    \/ CheckoutCreateSale("EMP001")

SpecPricing == InitFull /\ [][NextPricing]_vars

\* Two sessions that allocate keys and commit sales and purchases.
NextKeys ==
    \E s \in Sessions :
        \/ AddToCart(s)
        \/ CheckoutGetNextId(s)
        \/ CheckoutCreateSale(s)
        \/ PurchaseGetNextId(s)
        \/ PurchaseCreate(s)
        \/ CancelPurchase(s)

SpecKeys == InitFull /\ [][NextKeys]_vars



\* ------------------------------------------------------------------ claims
SaleLinesOf(db, no) == {d \in db.sale_detail : d.Invoice_No = no}
RowTotal(d) == d.Line_Total

\* C1: a create_sale call that returns a failure result leaves the sale header
\* table, the sale detail table and every stock record as they were before it.
C1_FailedSaleChangesNothing ==
    [][(last'.op = "create_sale" /\ ~last'.success) => store' = store]_vars

\* C1 witness: a sale failed on a stock shortfall that only its last line has.
C1_Witness ==
    /\ last.op = "create_sale"
    /\ ~last.success
    /\ last.error_message = "InsufficientStock"
    /\ last.note = "short_on_last"

\* C2: the on-hand quantity of every product is >= 0 in every reachable state.
C2_StockNeverNegative == \A p \in Products : StockOf(store, p) >= 0

\* C2 witness: update_stock computed its adjustment from a level that another
\* session's commit had changed meanwhile, and the adjustment was refused.
C2_Witness ==
    /\ last.op = "update_stock"
    /\ last.note = "stale"
    /\ ~last.success

\* C8: every persisted header has net = gross - discount, and its gross is the
\* sum of line_total over exactly the detail rows that carry its key.
C8_HeaderTotals ==
    /\ \A h \in store.sale :
         /\ h.Net_Amount = h.Total_Amount - h.Discount
         /\ h.Total_Amount = SumSet(RowTotal, SaleLinesOf(store, h.Invoice_No))
    /\ \A h \in store.purchase :
         h.Total_Amount = SumSet(RowTotal, PurchaseLines(store, h.Purchase_No))

\* C8 witness: a discounted sale of two lines and a purchase are persisted.
C8_Witness ==
    /\ \E h \in store.sale :
         /\ h.Discount > 0
         /\ Cardinality(SaleLinesOf(store, h.Invoice_No)) = 2
    /\ store.purchase # {}

\* C9: a purchase that was received stays Received: no operation moves it out of
\* that terminal state, so no later receive or cancel can succeed on it.
C9_ReceivedIsTerminal ==
    [][\A k \in OrderNos :
         StatusOf(store, k) = "Received" => StatusOf(store', k) = "Received"]_vars

\* C10: the ordered quantities of one purchase are added to stock at most once.
C10_ReceivedAtMostOnce == \A k \in OrderNos : receipts[k] <= 1

\* Session s has read its next key and not yet run its insert.
Keyed(s) == pc[s] \in {"checkout_keyed", "purchase_keyed"}

\* Session s runs the create_sale call of its checkout in this step.
CommitsSale(s) == pc[s] = "checkout_keyed" /\ pc'[s] = "idle"

\* Session s runs the usp_CreatePurchaseOrder call of its purchase in this step.
CommitsPurchase(s) == pc[s] = "purchase_keyed" /\ pc'[s] = "idle"

C4_KeyAllocatedWithInsert ==
    [][\A s \in Sessions :
         (Keyed(s) /\ Keyed(s)') =>
           /\ store'.sale = store.sale
           /\ store'.purchase = store.purchase
           /\ \A t \in Sessions \ {s} : Keyed(t)' => Keyed(t)]_vars

UniqueKeys(db) ==
    /\ \A g, h \in db.sale : g.Invoice_No = h.Invoice_No => g = h
    /\ \A g, h \in db.purchase : g.Purchase_No = h.Purchase_No => g = h

SaleRow(db, no) == CHOOSE h \in db.sale : h.Invoice_No = no

\* C6: the total, subtotal and discount shown before the commit equal the net
\* amount, gross amount and discount persisted for the sale the commit creates.
C6_PreviewEqualsPersisted ==
    [][\A s \in Sessions :
         (CommitsSale(s) /\ last'.success) =>
           LET h == SaleRow(store', local[s].key)
           IN /\ h.Net_Amount * 100 * 100 =
                   TotalTimes100(local[s].subtotal, local[s].discount,
                                 local[s].tax_rate)
              /\ h.Total_Amount * 100 = local[s].subtotal
              /\ h.Discount * 100 = local[s].discount]_vars

\* C7: every committed sale has net = subtotal - discount + tax, the tax being the
\* sale's tax rate applied to subtotal - discount, and subtotal = sum of its
\* lines' line_total, exactly in minor units.
C7_PricingIdentity ==
    [][\A s \in Sessions :
         (CommitsSale(s) /\ last'.success) =>
           LET h == SaleRow(store', local[s].key)
           IN /\ h.Net_Amount * 100 =
                   (h.Total_Amount - h.Discount) * 100
                   + (h.Total_Amount - h.Discount) * local[s].tax_rate
              /\ h.Total_Amount =
                   SumSet(RowTotal, SaleLinesOf(store', h.Invoice_No))]_vars

C12_ValidationBeforeStoreAccess ==
    [][(last' # last /\ last'.op = "create_sale" /\ last'.note = "invalid") =>
         /\ last'.error_message = "ValidationError"
         /\ store' = store]_vars

\* C13: a successful create_sale decrements the stock of each product by exactly
\* the quantity requested for it, summed over the lines naming it, and leaves the
\* stock of every product not in the order unchanged.
C13_SaleDecrementsExactly ==
    \A invoice_no \in OrderNos, discount \in Discounts, details \in LineLists :
        \A fault \in SaleFaults(store, invoice_no, details) :
            LET r == create_sale(store, invoice_no, "EMP001", discount, details,
                                 fault)
            IN r.result.success =>
                 \A p \in Products :
                     /\ StockOf(r.db, p) = StockOf(store, p) - Requested(details, p)
                     /\ Requested(details, p) = 0 =>
                          StockOf(r.db, p) = StockOf(store, p)

\* C13 witness: a sale whose two lines name the same product is committed while
\* the other product still has stock.
C13_Witness ==
    /\ last.op = "create_sale"
    /\ last.success
    /\ \E h \in store.sale :
         \E d, e \in SaleLinesOf(store, h.Invoice_No) :
             /\ d.Line # e.Line
             /\ d.Product_Code = e.Product_Code
             /\ \E p \in Products \ {d.Product_Code} : StockOf(store, p) > 0

\* C14: a purchase commit (create_purchase or create_with_product) creates only
\* a header with status Pending and its detail rows; every stock record is
\* unchanged by the call.
C14_PurchaseCommitLeavesStock ==
    [][(last' # last
          /\ last'.op \in {"create_purchase", "create_with_product"}) =>
         /\ store'.stock = store.stock
         /\ last'.success => StatusOf(store', last'.key) = "Pending"]_vars

\* Quantity of product p on the detail rows of a purchase.
PurchasedQty(db, no, p) ==
    LET q(d) == IF d.Product_Code = p THEN d.Quantity ELSE 0
    IN SumSet(q, PurchaseLines(db, no))

\* C15: receive on a Pending purchase succeeds, sets the status to Received and
\* increases the stock of each product by exactly the quantity on the purchase's
\* detail rows for it (summed over the rows naming it); no other stock changes.
C15_ReceiveAddsExactly ==
    \A purchase_no \in OrderNos :
        StatusOf(store, purchase_no) = "Pending" =>
          LET r == mark_as_received(store, purchase_no, NoFault)
          IN /\ r.result.success
             /\ StatusOf(r.db, purchase_no) = "Received"
             /\ r.db.purchase_detail = store.purchase_detail
             /\ \A p \in Products :
                  StockOf(r.db, p) =
                      StockOf(store, p) + PurchasedQty(store, purchase_no, p)

\* C15 witness: a purchase with two lines naming the same product was received.
C15_Witness ==
    /\ last.op = "mark_as_received"
    /\ last.success
    /\ last.note = "Pending"
    /\ StatusOf(store, last.key) = "Received"
    /\ \E d, e \in PurchaseLines(store, last.key) :
         d.Line # e.Line /\ d.Product_Code = e.Product_Code

\* C16: a receive that fails, also partway after some detail lines' stock
\* increments were applied, is rolled back as a whole: mark_as_received returns
\* failure, the purchase keeps its status and every stock record its value.
C16_FailedReceiveRolledBack ==
    [][(last'.op = "mark_as_received" /\ ~last'.success) => store' = store]_vars

\* C16 witness: a receive of a Pending purchase failed after at least one stock
\* increment, and the purchase is still Pending.
C16_Witness ==
    /\ last.op = "mark_as_received"
    /\ ~last.success
    /\ last.note = "partial"
    /\ StatusOf(store, last.key) = "Pending"

\* C17: cancel on a Pending purchase removes its header together with all of its
\* detail rows and leaves every stock record and every other order unchanged;
\* cancel on a purchase that is not Pending fails and changes nothing.
C17_CancelRemovesOrderOnly ==
    [][(last' # last /\ last'.op = "cancel_purchase") =>
         LET no == last'.key
         IN /\ store'.stock = store.stock
            /\ store'.sale = store.sale
            /\ store'.sale_detail = store.sale_detail
            /\ IF StatusOf(store, no) = "Pending"
               THEN /\ last'.success
                    /\ store'.purchase =
                         {h \in store.purchase : h.Purchase_No # no}
                    /\ store'.purchase_detail =
                         {d \in store.purchase_detail : d.Purchase_No # no}
               ELSE /\ ~last'.success
                    /\ store' = store]_vars

\* C17 witness: a Pending purchase was cancelled; no header or detail row of it
\* is left and the stock on hand is still there.
C17_Witness ==
    /\ last.op = "cancel_purchase"
    /\ last.success
    /\ last.note = "Pending"
    /\ last.key \notin PurchaseKeys(store)
    /\ PurchaseLines(store, last.key) = {}
    /\ \E p \in Products : StockOf(store, p) > 0

\* C18: the discount persisted with any sale lies in [0, subtotal], however it
\* was entered and whatever was removed from the cart afterwards.
C18_DiscountWithinSubtotal ==
    \A h \in store.sale : 0 <= h.Discount /\ h.Discount <= h.Total_Amount

C21_AdjustAppliesOrRefuses ==
    \A p \in Products, delta \in (0 - MaxQty)..MaxQty :
        LET r == adjust_stock(store, p, delta)
        IN IF StockOf(store, p) + delta < 0
           THEN ~r.result.success /\ r.db = store
           ELSE /\ r.result.success
                /\ StockOf(r.db, p) = StockOf(store, p) + delta
                /\ \A o \in Products \ {p} : StockOf(r.db, o) = StockOf(store, o)

\* A refused adjustment has happened while stock was on hand.
C21_Witness ==
    /\ last.op = "adjust_stock"
    /\ ~last.success
    /\ \E p \in Products : StockOf(store, p) > 0

\* ------------------------------------------- exceptions of the commit calls
\* How a call ends for its caller: a returned result, or an exception that
\* leaves the function.
Returned(r) == [db |-> r.db, exception |-> "", result |-> r.result]
Propagated(db, exception) ==
    [db |-> db, exception |-> exception,
     result |-> ProcedureResult(FALSE, NoKey, "")]

\* get_connection inside connection_context: pyodbc.connect raises pyodbc.Error
\* when the server cannot be reached; connection_context has no except clause.
connection_context(connects) == IF connects THEN "" ELSE "pyodbc.Error"

\* detail['Product_Code'], detail['Quantity'], detail['Unit_Price'] of every
\* line while the batch is built: a missing key raises KeyError.
DetailKeys == {"Product_Code", "Quantity", "Unit_Price"}
BuildDetailInserts(details) ==
    IF \A i \in DOMAIN details : DetailKeys \subseteq DOMAIN details[i]
    THEN "" ELSE "KeyError"

\* db.call_create_sale as its caller sees it: the with-statement raises before
\* the try block is entered, the try block catches pyodbc.Error only.
call_create_sale_outcome(db, invoice_no, employee_id, discount, details, fault, connects) ==
    IF connection_context(connects) # ""
    THEN Propagated(db, connection_context(connects))
    ELSE IF BuildDetailInserts(details) # ""
    THEN Propagated(db, BuildDetailInserts(details))
    ELSE Returned(call_create_sale(db, invoice_no, employee_id, discount,
                                   details, fault))

\* db.call_create_purchase as its caller sees it.
call_create_purchase_outcome(db, purchase_no, details, fault, connects) ==
    IF connection_context(connects) # ""
    THEN Propagated(db, connection_context(connects))
    ELSE IF BuildDetailInserts(details) # ""
    THEN Propagated(db, BuildDetailInserts(details))
    ELSE Returned(call_create_purchase(db, purchase_no, details, fault))

\* Line lists of a direct caller, one of them with a line that lacks Quantity.
MalformedLine(p) == [Product_Code |-> p, Unit_Price |-> Retail_Price(p)]
OutcomeLineLists ==
    [1..1 -> Lines] \cup {<<MalformedLine(p)>> : p \in Products}
OutcomePurchaseLists ==
    [1..1 -> {PurchaseLine(p, q) : p \in Products, q \in 1..MaxQty}]
        \cup {<<MalformedLine(p)>> : p \in Products}

OutcomeFaults(db, invoice_no, details) ==
    IF BuildDetailInserts(details) # "" THEN {NoFault}
    ELSE SaleFaults(db, invoice_no, details)

\* A direct caller of SaleRepository.create_sale; the note records the
\* exception that reached it.
CommitSaleOutcome(s) ==
    /\ pc[s] = "idle"
    /\ \E invoice_no \in OrderNos, details \in OutcomeLineLists,
          connects \in BOOLEAN :
         \E fault \in OutcomeFaults(store, invoice_no, details) :
           LET r == call_create_sale_outcome(store, invoice_no, s, 0, details,
                                             fault, connects)
           IN /\ store' = r.db
              /\ last' = Called("commit_sale", s, r.result, invoice_no,
                                r.exception)
    /\ UNCHANGED <<pos, pc, local, receipts>>

\* A direct caller of PurchaseRepository.create_purchase.
CommitPurchaseOutcome(s) ==
    /\ pc[s] = "idle"
    /\ \E purchase_no \in OrderNos, details \in OutcomePurchaseLists,
          fault \in {NoFault, 0}, connects \in BOOLEAN :
         LET r == call_create_purchase_outcome(store, purchase_no, details,
                                               fault, connects)
         IN /\ WithinCap(r.db)
            /\ store' = r.db
            /\ last' = Called("commit_purchase", s, r.result, purchase_no,
                              r.exception)
    /\ UNCHANGED <<pos, pc, local, receipts>>

NextOutcome ==
    \/ CommitSaleOutcome("EMP001")
    \/ CommitPurchaseOutcome("EMP002")
    \/ CancelPurchase("EMP002")

SpecOutcome == Init /\ [][NextOutcome]_vars

\* C22: commit_sale and commit_purchase never let an exception reach the
\* caller: every failure is a returned result with success = false and an
\* error, and the order key is returned only on success.
C22_NoExceptionReachesCaller ==
    last.op \in {"commit_sale", "commit_purchase"} =>
        /\ last.note = ""
        /\ ~last.success => (last.error_message # "" /\ last.created_key = NoKey)
        /\ last.success => last.created_key = last.key

\* C23: a lifecycle violation is reported with a message that names the wrong
\* state: cancel_purchase on a Received purchase returns (False, 'Cannot cancel
\* a received purchase'), mark_as_received on an already received purchase
\* returns (False, 'Purchase already marked as received'), and neither message
\* is the one returned for a purchase that does not exist.
C23_LifecycleMessageNamesState ==
    /\ (last.op = "cancel_purchase" /\ last.note = "Received") =>
           /\ ~last.success
           /\ last.error_message = "Cannot cancel a received purchase"
           /\ last.error_message #
                  cancel_purchase(EmptyStore(store.stock), last.key).result.error_message
    /\ (last.op = "mark_as_received" /\ last.note = "Received") =>
           /\ ~last.success
           /\ last.error_message = "Purchase already marked as received"
           /\ last.error_message #
                  mark_as_received(EmptyStore(store.stock), last.key, NoFault).result.error_message

\* ------------------------------------- one call, statement by statement
\* The calls that open a connection and run one transaction on it.
TxOps == {"commit_sale", "commit_purchase", "receive", "cancel"}

\* The committed store plus the rows the open transaction has written so far:
\* for a sale the header is row 1 and line k is row k + 1.
Working(db, s, l) ==
    IF l.rows = 0 THEN db
    ELSE IF l.op = "commit_sale"
    THEN SaleWritten(db, l.key, s, 0, l.details, l.rows - 1)
    ELSE IF l.op = "commit_purchase"
    THEN usp_CreatePurchase(db, l.key, l.details).db
    ELSE IF l.op = "receive"
    THEN usp_MarkPurchaseReceived(db, l.key, NoFault).db
    ELSE usp_CancelPurchase(db, l.key).db

\* pyodbc.connect(conn_str) leaves autocommit off: a statement's rows stay in
\* the connection's transaction until conn.commit().
TxWriteAutocommit(committed, working) == working
TxWrite(committed, working) == committed

\* What the except clause of each call returns.
TxFailure(op) ==
    IF op = "receive"
    THEN ProcedureResult(FALSE, NoKey, "Purchase not found or already received")
    ELSE IF op = "cancel"
    THEN ProcedureResult(FALSE, NoKey, "Purchase not found or cannot be cancelled")
    ELSE ProcedureResult(FALSE, NoKey, "StoreFailure")

\* connection_context's finally: `if connection: connection.close()`.
ContextExitOnSuccessOnly(conn, exception) ==
    IF conn = "open" /\ exception = "" THEN "closed" ELSE conn
ContextExit(conn, exception) == IF conn = "open" THEN "closed" ELSE conn

\* connection.close() with work neither committed nor rolled back: the
\* transaction ends with the connection and its rows are discarded.
ClosedTxn(txn) == IF txn = "open" THEN "rolled_back" ELSE txn

\* The line lists a caller passes: sale_lists to commit_sale, purchase_lists to
\* commit_purchase; receive and cancel take none.
TxDetails(op, sale_lists, purchase_lists) ==
    IF op = "commit_sale" THEN sale_lists
    ELSE IF op = "commit_purchase" THEN purchase_lists
    ELSE {<<>>}

\* The store a call leaves behind when nothing fails.
TxOutcome(db, s, op, key, details) ==
    IF BuildDetailInserts(details) # "" THEN db
    ELSE IF op = "commit_sale"
    THEN usp_CreateSale(db, key, s, 0, details).db
    ELSE Working(db, s, [NoLocal EXCEPT !.op = op, !.key = key,
                                        !.details = details, !.rows = 1])

\* `with connection_context() as conn: cursor = conn.cursor()`: get_connection
\* either connects or raises pyodbc.Error, which leaves the call at once.
TxConnect(s, ops, sale_lists, purchase_lists) ==
    /\ pc[s] = "idle"
    /\ \E op \in ops, key \in OrderNos, connects \in BOOLEAN :
         \E details \in TxDetails(op, sale_lists, purchase_lists) :
           /\ WithinCap(TxOutcome(store, s, op, key, details))
           /\ local' = [local EXCEPT ![s] =
                  [NoLocal EXCEPT !.op = op, !.key = key, !.details = details,
                                  !.conn = IF connects THEN "open" ELSE "none",
                                  !.txn = IF connects THEN "open" ELSE "none",
                                  !.exception = connection_context(connects)]]
           /\ pc' = [pc EXCEPT ![s] = IF connects THEN "tx_execute"
                                      ELSE "tx_return"]
    /\ UNCHANGED <<store, pos, last, receipts>>

\* The try block up to cursor.execute: building the batch raises KeyError on a
\* malformed line, which no except clause of the call handles.
TxBuild(s) ==
    /\ pc[s] = "tx_execute"
    /\ BuildDetailInserts(local[s].details) # ""
    /\ local' = [local EXCEPT ![s].exception = BuildDetailInserts(local[s].details)]
    /\ pc' = [pc EXCEPT ![s] = "tx_finally"]
    /\ UNCHANGED <<store, pos, last, receipts>>

\* cursor.execute of usp_CreateSale, one row at a time: the verdict, the
\* header, then each line's detail row and stock decrement; a pyodbc.Error can
\* interrupt it before any row.
TxExecuteSale(s) ==
    /\ pc[s] = "tx_execute"
    /\ local[s].op = "commit_sale"
    /\ BuildDetailInserts(local[s].details) = ""
    /\ LET l == local[s]
           verdict == SaleVerdict(store, l.key, l.details)
       IN \/ /\ pc' = [pc EXCEPT ![s] = "tx_except"]
             /\ UNCHANGED <<local, store>>
          \/ /\ l.rows = 0
             /\ verdict # "ok"
             /\ local' = [local EXCEPT ![s].result =
                              ProcedureResult(FALSE, NoKey, verdict)]
             /\ pc' = [pc EXCEPT ![s] = "tx_commit"]
             /\ UNCHANGED store
          \/ /\ verdict = "ok" \/ l.rows > 0
             /\ l.rows <= Len(l.details)
             /\ local' = [local EXCEPT ![s].rows = @ + 1]
             /\ store' = TxWrite(store, Working(store, s, local'[s]))
             /\ UNCHANGED pc
          \/ /\ l.rows = Len(l.details) + 1
             /\ local' = [local EXCEPT ![s].result =
                              ProcedureResult(TRUE, l.key, "")]
             /\ pc' = [pc EXCEPT ![s] = "tx_commit"]
             /\ UNCHANGED store
    /\ UNCHANGED <<pos, last, receipts>>

\* cursor.execute of usp_CreatePurchase, usp_MarkPurchaseReceived or
\* usp_CancelPurchase as one statement.
TxExecuteOther(s) ==
    /\ pc[s] = "tx_execute"
    /\ local[s].op # "commit_sale"
    /\ BuildDetailInserts(local[s].details) = ""
    /\ LET l == local[s]
           refused ==
               IF l.op = "commit_purchase"
               THEN ~usp_CreatePurchase(store, l.key, l.details).Success
               ELSE IF l.op = "receive"
               THEN usp_MarkPurchaseReceived(store, l.key, NoFault).raised
               ELSE usp_CancelPurchase(store, l.key).raised
       IN \/ /\ pc' = [pc EXCEPT ![s] = "tx_except"]
             /\ UNCHANGED <<local, store>>
          \/ /\ refused
             /\ l.op = "commit_purchase"
             /\ local' = [local EXCEPT ![s].result =
                   ProcedureResult(FALSE, NoKey,
                       usp_CreatePurchase(store, l.key, l.details).ErrorMessage)]
             /\ pc' = [pc EXCEPT ![s] = "tx_commit"]
             /\ UNCHANGED store
          \/ /\ refused
             /\ l.op # "commit_purchase"
             /\ pc' = [pc EXCEPT ![s] = "tx_except"]
             /\ UNCHANGED <<local, store>>
          \/ /\ ~refused
             /\ local' = [local EXCEPT ![s].rows = 1,
                              ![s].result = ProcedureResult(TRUE,
                                  IF l.op = "commit_purchase" THEN l.key ELSE NoKey,
                                  "")]
             /\ store' = TxWrite(store, Working(store, s, local'[s]))
             /\ pc' = [pc EXCEPT ![s] = "tx_commit"]
    /\ UNCHANGED <<pos, last, receipts>>

\* conn.commit(), or the pyodbc.Error it raises.
TxCommit(s) ==
    /\ pc[s] = "tx_commit"
    /\ \/ /\ store' = ConnCommit(store, Working(store, s, local[s]))
          /\ local' = [local EXCEPT ![s].txn = "committed"]
          /\ pc' = [pc EXCEPT ![s] = "tx_finally"]
       \/ /\ pc' = [pc EXCEPT ![s] = "tx_except"]
          /\ UNCHANGED <<local, store>>
    /\ UNCHANGED <<pos, last, receipts>>

\* except pyodbc.Error: conn.rollback() and the failure result; a rollback on
\* a dead connection raises again and leaves the call with the exception.
TxExcept(s) ==
    /\ pc[s] = "tx_except"
    /\ \/ /\ store' = ConnRollback(store, Working(store, s, local[s]))
          /\ local' = [local EXCEPT ![s].txn = "rolled_back", ![s].rows = 0,
                                    ![s].result = TxFailure(local[s].op)]
       \/ /\ local' = [local EXCEPT ![s].exception = "pyodbc.Error"]
          /\ UNCHANGED store
    /\ pc' = [pc EXCEPT ![s] = "tx_finally"]
    /\ UNCHANGED <<pos, last, receipts>>

\* finally: cursor.close(), then connection_context's finally.
TxFinally(s) ==
    /\ pc[s] = "tx_finally"
    /\ LET conn == ContextExit(local[s].conn, local[s].exception)
       IN local' = [local EXCEPT ![s].conn = conn,
                        ![s].txn = IF conn = "closed" THEN ClosedTxn(@) ELSE @]
    /\ pc' = [pc EXCEPT ![s] = "tx_return"]
    /\ UNCHANGED <<store, pos, last, receipts>>

\* The call returns its result, or the exception reaches the caller.
TxReturn(s) ==
    /\ pc[s] = "tx_return"
    /\ last' = Called(local[s].op, s, local[s].result, local[s].key,
                      local[s].exception)
    /\ pc' = [pc EXCEPT ![s] = "idle"]
    /\ local' = [local EXCEPT ![s] = NoLocal]
    /\ UNCHANGED <<store, pos, receipts>>

\* SaleRepository.get_by_id: usp_GetSaleById on a connection of its own; no
\* header returns None.
GetByIdHeader(s) ==
    /\ pc[s] = "idle"
    /\ \E invoice_no \in OrderNos :
         IF invoice_no \in SaleKeys(store)
         THEN /\ pc' = [pc EXCEPT ![s] = "get_by_id"]
              /\ local' = [local EXCEPT ![s] = [NoLocal EXCEPT
                     !.key = invoice_no,
                     !.subtotal = (CHOOSE h \in store.sale :
                                      h.Invoice_No = invoice_no).Total_Amount]]
              /\ UNCHANGED last
         ELSE /\ last' = Called("get_by_id", s, ProcedureResult(FALSE, NoKey, ""),
                                invoice_no, "none")
              /\ UNCHANGED <<pc, local>>
    /\ UNCHANGED <<store, pos, receipts>>

\* SaleRepository.get_by_id: usp_GetSaleDetails on another connection.
GetByIdDetails(s) ==
    /\ pc[s] = "get_by_id"
    /\ LET rows == {r \in store.sale_detail : r.Invoice_No = local[s].key}
           line_total(r) == r.Line_Total
           seen == SumSet(line_total, rows)
       IN last' = Called("get_by_id", s, ProcedureResult(TRUE, local[s].key, ""),
                         local[s].key,
                         IF rows # {} /\ seen = local[s].subtotal
                         THEN "all" ELSE "partial")
    /\ pc' = [pc EXCEPT ![s] = "idle"]
    /\ local' = [local EXCEPT ![s] = NoLocal]
    /\ UNCHANGED <<store, pos, receipts>>

\* One session's call once it has connected.
TxStep(s) ==
    \/ TxBuild(s)
    \/ TxExecuteSale(s)
    \/ TxExecuteOther(s)
    \/ TxCommit(s)
    \/ TxExcept(s)
    \/ TxFinally(s)
    \/ TxReturn(s)

\* EMP001 commits sales statement by statement while EMP002 looks sales up.
NextIsolation ==
    \/ TxConnect("EMP001", {"commit_sale"},
                 LineLists \cup {<<MalformedLine(p)>> : p \in Products}, {})
    \/ TxBuild("EMP001")
    \/ TxExecuteSale("EMP001")
    \/ TxCommit("EMP001")
    \/ TxExcept("EMP001")
    \/ TxFinally("EMP001")
    \/ TxReturn("EMP001")
    \/ GetByIdHeader("EMP002")
    \/ GetByIdDetails("EMP002")

SpecIsolation == InitFull /\ [][NextIsolation]_vars

\* Units of product p sold according to the detail rows of a store.
SoldQty(db, p) ==
    LET qty(r) == IF r.Product_Code = p THEN r.Quantity ELSE 0
    IN SumSet(qty, db.sale_detail)

\* A store in which every sale is there as a whole: each header has detail
\* rows adding up to its total, each detail row has its header, and the stock
\* is down by exactly the quantities of the detail rows.
SalesWhole(db) ==
    /\ \A h \in db.sale :
           LET line_total(r) == r.Line_Total
               rows == {r \in db.sale_detail : r.Invoice_No = h.Invoice_No}
           IN rows # {} /\ SumSet(line_total, rows) = h.Total_Amount
    /\ \A r \in db.sale_detail : r.Invoice_No \in SaleKeys(db)
    /\ \A p \in Products : StockOf(db, p) = MaxStock - SoldQty(db, p)

\* C24: within one commit the header insert precedes the detail inserts, which
\* precede the stock adjustment, which precedes the transaction commit, and a
\* read by another session sees either none or all of the header, its detail
\* rows and its stock change.
C24_CommitOrderedAndIsolated ==
    /\ SalesWhole(store)
    /\ last.op = "get_by_id" => last.note \in {"none", "all"}
    /\ \A s \in Sessions :
          (local[s].op = "commit_sale" /\ local[s].txn = "open"
                                       /\ local[s].rows > 0) =>
              LET w == Working(store, s, local[s])
                  mine == {r \in w.sale_detail : r.Invoice_No = local[s].key}
              IN /\ local[s].key \notin SaleKeys(store)
                 /\ mine # {} => local[s].key \in SaleKeys(w)
                 /\ w.stock # store.stock => mine # {}

\* EMP002 looked a sale up and found nothing while EMP001's transaction had
\* already written the header and a line of that sale.
C24_Witness ==
    /\ pc["EMP001"] = "tx_execute"
    /\ local["EMP001"].rows >= 2
    /\ last.op = "get_by_id"
    /\ last.note = "none"
    /\ last.key = local["EMP001"].key

\* One-line orders of one product, one of them malformed.
TxSaleLists ==
    {<<Line("PRD001", q)>> : q \in 1..MaxQty} \cup {<<MalformedLine("PRD001")>>}
TxPurchaseLists ==
    {<<PurchaseLine("PRD001", q)>> : q \in 1..MaxQty}
        \cup {<<MalformedLine("PRD001")>>}

\* EMP001 runs commit_sale, commit_purchase, receive and cancel statement by
\* statement.
NextTx ==
    \/ TxConnect("EMP001", TxOps, TxSaleLists, TxPurchaseLists)
    \/ TxBuild("EMP001")
    \/ TxExecuteSale("EMP001")
    \/ TxExecuteOther("EMP001")
    \/ TxCommit("EMP001")
    \/ TxExcept("EMP001")
    \/ TxFinally("EMP001")
    \/ TxReturn("EMP001")

SpecTx == InitFull /\ [][NextTx]_vars

\* A started call is straight-line code on its own thread: its next
\* statement is always taken.
SpecTxLive == SpecTx /\ WF_vars(TxStep("EMP001"))

\* C25: every started commit_sale, commit_purchase, receive or cancel
\* eventually returns to its caller having committed or rolled back its
\* transaction, and on every exit path the connection it opened is released; a
\* transaction is never left open.
C25_CallsEndReleased ==
    /\ \A s \in Sessions : (pc[s] \notin {"idle", "get_by_id"}) ~> (pc[s] = "idle")
    /\ [](\A s \in Sessions :
             pc[s] \in {"idle", "tx_return"} =>
                 /\ local[s].conn # "open"
                 /\ local[s].txn # "open")

\* A call whose rollback raised is about to hand the exception to its caller
\* with the connection closed.
C25_Witness ==
    /\ pc["EMP001"] = "tx_return"
    /\ local["EMP001"].exception = "pyodbc.Error"
    /\ local["EMP001"].conn = "closed"
    /\ local["EMP001"].txn = "rolled_back"

\* C26: a successful update_stock(product, new_stock) leaves the product's
\* stock equal to new_stock in every interleaving with other sessions' sales,
\* receipts and adjustments, including one that commits between its read of
\* the current level and its adjustment; a call with new_stock < 0 returns
\* False without any store access.
C26_UpdateStockSetsLevel ==
    [][\A s \in Sessions :
         /\ (pc[s] = "update_stock" /\ pc'[s] = "idle" /\ last'.success) =>
                StockOf(store', local[s].product) = local[s].qty
         /\ (last' # last /\ last'.op = "update_stock" /\ last'.note = "rejected") =>
                (~last'.success /\ store' = store)]_vars

\* DiscountSelectionDialog._set_allday_discount confirmed, as
\* _open_discount_dialog applies it.
SetAllDayDiscount(s) ==
    /\ pc[s] = "idle"
    /\ \E pct \in allday_rates :
         /\ allday_discount_pct' = [allday_discount_pct EXCEPT ![s] = pct]
         /\ current_discount' = [current_discount EXCEPT ![s] =
                update_totals_discount(cart_items[s],
                    (Subtotal(cart_items[s]) * pct) \div 100, pct)]
    /\ UNCHANGED <<store, inventory_map, cart_items, current_tax_rate, pc, local,
                   last, receipts>>

\* One operator who edits the cart, switches an all-day discount on and checks
\* out; no other discount is ever chosen.
NextAllDay ==
    \/ AddToCart("EMP001")
    \/ IncreaseQuantity("EMP001")
    \/ DecreaseQuantity("EMP001")
    \/ RemoveFromCart("EMP001")
    \/ SetAllDayDiscount("EMP001")
    \/ CheckoutGetNextId("EMP001")
    \/ CheckoutCreateSale("EMP001")

SpecAllDay == InitFull /\ [][NextAllDay]_vars

\* C27: while an all-day discount of p% is active, the discount applied to a
\* sale at checkout equals p% of that sale's subtotal at checkout, whatever
\* cart edits came before the checkout.
C27_AllDayDiscountFollowsSubtotal ==
    \A s \in Sessions :
        (pc[s] = "checkout_keyed" /\ allday_discount_pct[s] # 0) =>
            local[s].discount = (local[s].subtotal * allday_discount_pct[s]) \div 100

\* One operator at the point of sale, who also returns to the POS section
\* (refresh_data), while another session adjusts stock.
NextCart ==
    \/ RefreshData("EMP001")
    \/ AddToCart("EMP001")
    \/ IncreaseQuantity("EMP001")
    \/ DecreaseQuantity("EMP001")
    \/ RemoveFromCart("EMP001")
    \/ ClearCart("EMP001")
    \/ AdjustStockCall("EMP002")

SpecCart == InitFull /\ [][NextCart]_vars

\* C28: in every reachable state of the POS cart each product code occurs in
\* at most one cart item, and every cart item has 1 <= quantity <= the stock
\* level recorded for it when it was added.
C28_CartItemsWithinRecordedStock ==
    \A s \in Sessions :
        LET cart == cart_items[s]
        IN /\ \A i, j \in DOMAIN cart :
                 cart[i].product_code = cart[j].product_code => i = j
           /\ \A i \in DOMAIN cart :
                 /\ 1 <= cart[i].quantity
                 /\ cart[i].quantity <= cart[i].available_stock

\* C29: when create_sale returns a failure during checkout, the cart items,
\* the current discount, the tax rate and the all-day discount are exactly as
\* before the checkout; only a successful commit clears the cart and resets
\* the current discount to 0 while keeping the all-day discount.
C29_FailedCheckoutKeepsCart ==
    [][\A s \in Sessions :
         /\ (CommitsSale(s) /\ ~last'.success) =>
                /\ cart_items'[s] = cart_items[s]
                /\ current_discount'[s] = current_discount[s]
                /\ current_tax_rate'[s] = current_tax_rate[s]
                /\ allday_discount_pct'[s] = allday_discount_pct[s]
                /\ Subtotal(cart_items'[s]) = local[s].subtotal
                /\ current_discount'[s] = local[s].discount
         /\ (CommitsSale(s) /\ last'.success) =>
                /\ cart_items'[s] = <<>>
                /\ current_discount'[s] = 0
                /\ allday_discount_pct'[s] = allday_discount_pct[s]
         /\ (cart_items[s] # <<>> /\ cart_items'[s] = <<>> /\ pc[s] = "checkout_keyed")
                => last'.success]_vars

\* A checkout failed on a store failure with a discount, a tax rate and an
\* all-day discount set and two items in the cart.
C29_Witness ==
    /\ last.op = "create_sale"
    /\ ~last.success
    /\ last.error_message = "StoreFailure"
    /\ Len(cart_items["EMP001"]) = 2
    /\ current_discount["EMP001"] # 0
    /\ current_tax_rate["EMP001"] # 0
    /\ allday_discount_pct["EMP001"] # 0

\* ------------------------------------------------ checkout with its dialogs
\* CustomerRepository.get_next_id: the next customer number.
customer_get_next_id(db) == MaxOf(db.customer) + 1

\* usp_AddCustomer as CustomerRepository.create_customer documents it: the
\* customer row is inserted.
usp_AddCustomer(db, CustomerId) ==
    IF CustomerId \in db.customer THEN Raised(db, "DuplicateKey")
    ELSE Ran([db EXCEPT !.customer = @ \cup {CustomerId}], "")

\* CustomerRepository.create_customer: get_next_id, then usp_AddCustomer
\* through call_procedure, which commits.
create_customer(db, fault) ==
    LET customer_id == customer_get_next_id(db)
        out == IF fault # NoFault THEN Raised(db, "StoreFailure")
               ELSE usp_AddCustomer(db, customer_id)
        r == call_procedure(db, out)
    IN [db |-> r.db,
        result |-> ProcedureResult(r.result,
                                   IF r.result THEN customer_id ELSE NoKey,
                                   IF r.result THEN "" ELSE "Failed to create customer")]

\* SalePOSView._checkout up to the accepted CustomerInfoDialog: walk-in or an
\* existing customer, or a new customer whom _continue creates on the spot. A
\* cancelled dialog returns with nothing done.
CheckoutCustomerDialog(s) ==
    /\ pc[s] = "idle"
    /\ cart_items[s] # <<>>
    /\ \E is_existing_customer \in BOOLEAN, fault \in {NoFault, 0} :
         LET r == IF is_existing_customer
                  THEN [db |-> store, result |-> ProcedureResult(TRUE, NoKey, "")]
                  ELSE create_customer(store, fault)
         IN /\ Cardinality(r.db.customer) <= MaxCustomers
            /\ store' = r.db
            /\ IF r.result.success
               THEN /\ pc' = [pc EXCEPT ![s] = "checkout_dialog"]
                    /\ local' = [local EXCEPT ![s] =
                           [NoLocal EXCEPT !.before = store,
                                           !.subtotal = Subtotal(cart_items[s]),
                                           !.discount = current_discount[s],
                                           !.tax_rate = current_tax_rate[s]]]
               ELSE UNCHANGED <<pc, local>>
    /\ UNCHANGED <<pos, last, receipts>>

\* The operator cancels the CheckoutDialog: _checkout returns.
CheckoutDialogCancel(s) ==
    /\ pc[s] = "checkout_dialog"
    /\ pc' = [pc EXCEPT ![s] = "idle"]
    /\ local' = [local EXCEPT ![s] = NoLocal]
    /\ last' = Called("checkout", s, ProcedureResult(FALSE, NoKey, ""), NoKey,
                      "cancelled")
    /\ UNCHANGED <<store, pos, receipts>>

\* The operator accepts the CheckoutDialog: SaleRepository.get_next_id.
CheckoutDialogAccept(s) ==
    /\ pc[s] = "checkout_dialog"
    /\ sale_get_next_id(store) <= MaxOrders
    /\ pc' = [pc EXCEPT ![s] = "checkout_keyed"]
    /\ local' = [local EXCEPT ![s].key = sale_get_next_id(store)]
    /\ UNCHANGED <<store, pos, last, receipts>>

\* One operator checking out through both dialogs.
NextCheckout ==
    \/ AddToCart("EMP001")
    \/ IncreaseQuantity("EMP001")
    \/ RemoveFromCart("EMP001")
    \/ CheckoutCustomerDialog("EMP001")
    \/ CheckoutDialogCancel("EMP001")
    \/ CheckoutDialogAccept("EMP001")
    \/ CheckoutCreateSale("EMP001")

SpecCheckout == Init /\ [][NextCheckout]_vars

\* C30: a checkout that does not end in a committed sale (the operator
\* cancels the checkout dialog, or create_sale fails) leaves the store as it
\* was when the checkout began: no customer, header, detail or stock row is
\* created or modified by the attempt.
C30_AbandonedCheckoutLeavesStore ==
    [][\A s \in Sessions :
         (\/ pc[s] = "checkout_dialog" /\ pc'[s] = "idle"
          \/ CommitsSale(s) /\ ~last'.success) =>
             store' = local[s].before]_vars

====
